---- MODULE Spec2Model ----
(***************************************************************************)
(* Tabular RL algorithm base (RL_Algorithm/RL_base.py) with the Monte      *)
(* Carlo (Algorithm/MC.py) and Double Q-Learning                           *)
(* (Algorithm/Double_Q_Learning.py) update rules.                          *)
(*                                                                         *)
(* Numbers: Python floats are modelled as exact rationals <<n, d>> in      *)
(* lowest terms with d > 0, so rounding is not modelled.  Raw observations *)
(* are integers in the unit of the dimension's bound (position in metres,  *)
(* pole angle in degrees, velocities in units per second); bin edges are   *)
(* rationals.                                                              *)
(***************************************************************************)
EXTENDS Integers, Sequences, FiniteSets, TLC

VARIABLES
    control_type,            \* "MONTE_CARLO" | "DOUBLE_Q_LEARNING" | "NONE" (no instance)
    num_of_action,
    action_range,            \* <<action_min, action_max>>
    discretize_state_weight, \* 4 bin counts
    lr,
    discount_factor,
    epsilon,
    epsilon_decay,
    final_epsilon,
    q_values,                \* defaultdict: key -> entry, DOMAIN = keys present
    n_values,
    qa_values,
    qb_values,
    check_update,            \* Double Q toggle: TRUE selects Qa
    obs_hist,
    action_hist,
    reward_hist,
    file,                    \* the checkpoint file on disk
    ret,                     \* index returned by the last call, -1 when it returned none
    raised,                  \* exception raised by the last call, or "none"
    limits,                  \* how many calls of each kind the driver makes
    n_calls,                 \* update calls so far
    n_done,                  \* update calls with done = true so far (Monte Carlo)
    n_other,                 \* decay_epsilon, save_q_value and load_q_value calls so far
    n_select,                \* get_discretize_action calls so far
    g_sum,                   \* history: per (state, action), the sum of its first-visit
                             \* returns over the completed episodes
    disc_obs,                \* discretize_state run: the raw observation
    disc_key,                \* discretize_state run: the key returned
    map_action,              \* mapping_action run: the index passed, -1 before a call
    map_value                \* mapping_action run: the value returned

vars == <<control_type, num_of_action, discretize_state_weight, lr,
          discount_factor, epsilon, epsilon_decay, final_epsilon,
          q_values, n_values, qa_values, qb_values, check_update,
          obs_hist, action_hist, reward_hist, file, ret, raised,
          limits, n_calls, n_done, n_other, n_select, g_sum,
          disc_obs, disc_key, action_range, map_action, map_value>>

config_vars == <<control_type, num_of_action, discretize_state_weight, lr,
                 discount_factor, epsilon_decay, final_epsilon, limits,
                 action_range>>

table_vars == <<q_values, n_values, qa_values, qb_values>>

hist_vars == <<obs_hist, action_hist, reward_hist>>

count_vars == <<n_calls, n_done, n_other, n_select>>

disc_vars == <<disc_obs, disc_key, map_action, map_value>>

(***************************************************************************)
(* Exact rational arithmetic.                                              *)
(***************************************************************************)
Abs(x) == IF x < 0 THEN -x ELSE x

RECURSIVE GCD(_, _)
GCD(a, b) == IF b = 0 THEN a ELSE GCD(b, a % b)

Rat(n, d) ==
    LET g == GCD(Abs(n), Abs(d))
        s == IF d < 0 THEN -1 ELSE 1
    IN  <<(s * n) \div g, (s * d) \div g>>

Zero == Rat(0, 1)
One == Rat(1, 1)

RAdd(x, y) == Rat(x[1] * y[2] + y[1] * x[2], x[2] * y[2])
RSub(x, y) == Rat(x[1] * y[2] - y[1] * x[2], x[2] * y[2])
RMul(x, y) == Rat(x[1] * y[1], x[2] * y[2])
RDiv(x, y) == Rat(x[1] * y[2], x[2] * y[1])
RLt(x, y) == x[1] * y[2] < y[1] * x[2]
RLe(x, y) == x[1] * y[2] <= y[1] * x[2]
RMax(x, y) == IF RLt(x, y) THEN y ELSE x

RECURSIVE RPow(_, _)
RPow(x, n) == IF n = 0 THEN One ELSE RMul(x, RPow(x, n - 1))

(***************************************************************************)
(* discretize_state: clip, linspace, bucketize.                            *)
(***************************************************************************)
pose_cart_bound == 4
pose_pole_bound == 30
vel_cart_bound == 15
vel_pole_bound == 15

Bounds == <<pose_cart_bound, pose_pole_bound, vel_cart_bound, vel_pole_bound>>

\* torch.clip(x, lo, hi)
Clip(x, lo, hi) == IF x < lo THEN lo ELSE IF x > hi THEN hi ELSE x

\* torch.linspace(start, end, steps): steps evenly spaced edges, start alone
\* when steps = 1
Linspace(start, end, steps) ==
    [i \in 1..steps |->
        IF steps = 1 THEN Rat(start, 1)
        ELSE Rat(start * (steps - 1) + (i - 1) * (end - start), steps - 1)]

\* bucketize with right=True: the number of edges at or below v
BucketizeRight(v, grid) ==
    Cardinality({i \in 1..Len(grid) : RLe(grid[i], Rat(v, 1))})

\* torch.bucketize(v, grid) with right=False, on a sorted grid: the index i
\* with grid[i-1] < v <= grid[i], i.e. the number of edges strictly below v
Bucketize(v, grid) ==
    Cardinality({i \in 1..Len(grid) : RLt(grid[i], Rat(v, 1))})

discretize_state(weight, obs) ==
    [i \in 1..4 |->
        Bucketize(Clip(obs[i], -Bounds[i], Bounds[i]),
                  Linspace(-Bounds[i], Bounds[i], weight[i]))]

(***************************************************************************)
(* Value tables: defaultdict(lambda: np.zeros(num_of_action)).  A table is *)
(* a function whose DOMAIN is the set of keys present; an entry records    *)
(* its values (vals[a + 1] is the slot of action index a), whether the     *)
(* value object is an ndarray or a list, and whether the key object is a   *)
(* tuple of ints or of floats (equal as dictionary keys).                  *)
(***************************************************************************)
ZeroEntry(n) == [vals |-> [i \in 1..n |-> Zero], kind |-> "ndarray", fkey |-> FALSE]

\* the table after reading table[k]: a missing key is created with zeros
Materialize(table, k, n) ==
    IF k \in DOMAIN table THEN table ELSE (k :> ZeroEntry(n)) @@ table

\* the table after table[k][a] = v (the entry exists)
SetSlot(table, k, a, v) == [table EXCEPT ![k].vals[a + 1] = v]

\* np.max(vals)
RECURSIVE NpMax(_)
NpMax(vals) ==
    IF Len(vals) = 1 THEN vals[1]
    ELSE RMax(vals[1], NpMax(Tail(vals)))

RECURSIVE ArgmaxScan(_, _, _)
ArgmaxScan(vals, i, best) ==
    IF i > Len(vals) THEN best - 1
    ELSE ArgmaxScan(vals, i + 1, IF RLt(vals[best], vals[i]) THEN i ELSE best)

\* an argmax that returns the last occurrence of the maximum
NpArgmaxLast(vals) ==
    CHOOSE i \in 0..(Len(vals) - 1) :
        /\ \A j \in 1..Len(vals) : RLe(vals[j], vals[i + 1])
        /\ \A j \in (i + 2)..Len(vals) : RLt(vals[j], vals[i + 1])

\* np.argmax(vals): index (from 0) of the first occurrence of the maximum
NpArgmax(vals) == ArgmaxScan(vals, 2, 1)

\* no checkpoint file on disk
NoFile == [status |-> "absent", sections |-> {}, q_values |-> <<>>,
           n_values |-> <<>>, qa_values |-> <<>>, qb_values |-> <<>>,
           from |-> <<>>]

(***************************************************************************)
(* BaseAlgorithm.__init__ through MC.__init__ / Double_Q_Learning.__init__ *)
(* and the bounded driver.                                                 *)
(***************************************************************************)
NumActions == 2
InstBins == 5
action_bound == 20
MaxSteps == 3
MaxEpisodes == 2
MaxOther == 2
MaxSelect == 1

\* configurations an instance is constructed with:
\* <<learning_rate, discount_factor, initial_epsilon, epsilon_decay, final_epsilon>>
Configs ==
    { <<Rat(1, 2), One, One, Rat(9, 10), Rat(1, 4)>>,
      <<Rat(1, 4), Rat(1, 2), Zero, Rat(1, 2), Rat(1, 4)>>,
      <<One, Rat(1, 2), Zero, One, Zero>> }

\* the driver either only updates, or updates less and also selects
\* actions, decays epsilon, saves and loads
Limits ==
    { [steps |-> MaxSteps, episodes |-> MaxEpisodes, other |-> 0, select |-> 0,
       restart |-> 0],
      [steps |-> MaxSteps - 1, episodes |-> MaxEpisodes - 1,
       other |-> MaxOther, select |-> MaxSelect, restart |-> 0] }

Rewards == {Zero, One}

\* raw observations the driver passes: one inside the bounds, one beyond
ObsSet == { <<0, 0, 0, 0>>, <<5, 0, 0, 0>> }

Keys == {discretize_state([i \in 1..4 |-> InstBins], o) : o \in ObsSet}

Actions == 0..(NumActions - 1)

init(ct, c) ==
    /\ control_type = ct
    /\ lr = c[1]
    /\ discount_factor = c[2]
    /\ epsilon = c[3]
    /\ epsilon_decay = c[4]
    /\ final_epsilon = c[5]
    /\ num_of_action = NumActions
    /\ action_range = <<Rat(-action_bound, 1), Rat(action_bound, 1)>>
    /\ discretize_state_weight = [i \in 1..4 |-> InstBins]
    /\ q_values = <<>>
    /\ n_values = <<>>
    /\ obs_hist = <<>>
    /\ action_hist = <<>>
    /\ reward_hist = <<>>
    /\ qa_values = <<>>
    /\ qb_values = <<>>
    /\ check_update = TRUE
    /\ file = NoFile
    /\ ret = -1
    /\ raised = "none"
    /\ n_calls = 0
    /\ n_done = 0
    /\ n_other = 0
    /\ n_select = 0
    /\ g_sum = [p \in Keys \X Actions |-> Zero]
    /\ disc_obs = <<>>
    /\ disc_key = <<>>
    /\ map_action = -1
    /\ map_value = <<>>

(***************************************************************************)
(* Double_Q_Learning.update                                                *)
(***************************************************************************)
\* a target that leaves the discount factor out
TDTargetNoDiscount(old, reward, best) ==
    RAdd(old, RMul(lr, RSub(RAdd(reward, best), old)))

\* Q[s][a] + lr * (reward + discount_factor * best - Q[s][a])
TDTarget(old, reward, best) ==
    RAdd(old, RMul(lr, RSub(RAdd(reward, RMul(discount_factor, best)), old)))

\* best value of the other table at next_obs, 0 when the key is absent
BestOther(other, next_obs) ==
    IF next_obs \in DOMAIN other THEN NpMax(other[next_obs].vals) ELSE Zero

\* table[obs][action] += lr * (reward + gamma * best - table[obs][action])
TDWrite(table, obs, action, reward, best) ==
    LET t == Materialize(table, obs, num_of_action)
    IN  SetSlot(t, obs, action, TDTarget(t[obs].vals[action + 1], reward, best))

\* a toggle that never flips
ToggleStuck(b) == b

\* self.check_update = not self.check_update
Toggle(b) == ~b

dq_update(o, action, reward, no) ==
    LET obs == discretize_state(discretize_state_weight, o)
        next_obs == discretize_state(discretize_state_weight, no)
    IN  /\ control_type = "DOUBLE_Q_LEARNING"
        /\ n_calls < limits.steps
        /\ IF action \in 0..(num_of_action - 1)
           THEN /\ IF check_update
                   THEN /\ qa_values' = TDWrite(qa_values, obs, action, reward,
                                                BestOther(qb_values, next_obs))
                        /\ qb_values' = qb_values
                   ELSE /\ qb_values' = TDWrite(qb_values, obs, action, reward,
                                                BestOther(qa_values, next_obs))
                        /\ qa_values' = qa_values
                /\ check_update' = Toggle(check_update)
                /\ raised' = "none"
           ELSE \* action >= num_of_action: table[obs] is read, and created
                \* when absent, before [action] raises; line 66 is not reached
                /\ IF check_update
                   THEN /\ qa_values' = Materialize(qa_values, obs, num_of_action)
                        /\ qb_values' = qb_values
                   ELSE /\ qb_values' = Materialize(qb_values, obs, num_of_action)
                        /\ qa_values' = qa_values
                /\ check_update' = check_update
                /\ raised' = "IndexError"
        /\ n_calls' = n_calls + 1
        /\ ret' = -1
        /\ UNCHANGED <<config_vars, epsilon, q_values, n_values, hist_vars,
                       file, n_done, n_other, n_select, g_sum, disc_vars>>

DQUpdate ==
    \E o \in ObsSet, no \in ObsSet, action \in 0..(num_of_action - 1),
       reward \in Rewards :
        dq_update(o, action, reward, no)

\* an update call with the first action index past the end of a row
DQUpdateBadAction ==
    \E o \in ObsSet, no \in ObsSet, reward \in Rewards :
        dq_update(o, num_of_action, reward, no)

(***************************************************************************)
(* MC.update                                                               *)
(***************************************************************************)
\* a history that forgets the step
RecordDropped(hist, x) == hist

\* hist.append(x)
Record(hist, x) == Append(hist, x)

\* return_list without discounting
RECURSIVE ReturnListUndiscounted(_)
ReturnListUndiscounted(rewards) ==
    IF rewards = <<>> THEN <<>>
    ELSE LET rest == ReturnListUndiscounted(Tail(rewards))
             G == IF rest = <<>> THEN Zero ELSE rest[1]
         IN  <<RAdd(rewards[1], G)>> \o rest

\* return_list: G = reward_hist[i] + discount_factor * G, from the last
\* step back to the first
RECURSIVE ReturnList(_)
ReturnList(rewards) ==
    IF rewards = <<>> THEN <<>>
    ELSE LET rest == ReturnList(Tail(rewards))
             G == IF rest = <<>> THEN Zero ELSE rest[1]
         IN  <<RAdd(rewards[1], RMul(discount_factor, G))>> \o rest

\* one pass of the loop body: tabs = <<q_values, n_values>>
VisitStep(tabs, state, action, G) ==
    LET n0 == Materialize(tabs[2], state, num_of_action)
        n1 == SetSlot(n0, state, action, RAdd(n0[state].vals[action + 1], One))
        alpha == RDiv(One, n1[state].vals[action + 1])
        q0 == Materialize(tabs[1], state, num_of_action)
        old == q0[state].vals[action + 1]
        q1 == SetSlot(q0, state, action, RAdd(old, RMul(alpha, RSub(G, old))))
    IN  <<q1, n1>>

\* the loop without the visited_states test (every-visit)
RECURSIVE EveryVisitLoop(_, _, _, _, _, _)
EveryVisitLoop(t, visited_states, tabs, return_list, oh, ah) ==
    IF t > Len(oh) THEN tabs
    ELSE EveryVisitLoop(t + 1, visited_states,
                        VisitStep(tabs, oh[t], ah[t], return_list[t]),
                        return_list, oh, ah)

\* for t in range(len(self.obs_hist)): the first-visit update
RECURSIVE FirstVisitLoop(_, _, _, _, _, _)
FirstVisitLoop(t, visited_states, tabs, return_list, oh, ah) ==
    IF t > Len(oh) THEN tabs
    ELSE IF <<oh[t], ah[t]>> \in visited_states
         THEN FirstVisitLoop(t + 1, visited_states, tabs, return_list, oh, ah)
         ELSE FirstVisitLoop(t + 1, visited_states \cup {<<oh[t], ah[t]>>},
                             VisitStep(tabs, oh[t], ah[t], return_list[t]),
                             return_list, oh, ah)

\* an episode end that first records the terminal step
EndEpisodeWithTerminal(obs, action, reward_value) ==
    FirstVisitLoop(1, {}, <<q_values, n_values>>,
                   ReturnList(Append(reward_hist, reward_value)),
                   Append(obs_hist, obs), Append(action_hist, action))

\* the done = true branch: <<q_values, n_values>> after the episode
EndEpisode(obs, action, reward_value) ==
    FirstVisitLoop(1, {}, <<q_values, n_values>>, ReturnList(reward_hist),
                   obs_hist, action_hist)

\* history: the return of step t as the discounted sum of the rewards from t on
RECURSIVE ReturnFrom(_, _)
ReturnFrom(t, j) ==
    IF j > Len(reward_hist) THEN Zero
    ELSE RAdd(RMul(RPow(discount_factor, j - t), reward_hist[j]),
              ReturnFrom(t, j + 1))

Occurs(p) ==
    \E t \in 1..Len(obs_hist) : obs_hist[t] = p[1] /\ action_hist[t] = p[2]

FirstVisit(p) ==
    CHOOSE t \in 1..Len(obs_hist) :
        /\ obs_hist[t] = p[1] /\ action_hist[t] = p[2]
        /\ \A u \in 1..(t - 1) : ~(obs_hist[u] = p[1] /\ action_hist[u] = p[2])

mc_update(done, o, action, reward_value) ==
    LET obs == discretize_state(discretize_state_weight, o)
    IN  /\ control_type = "MONTE_CARLO"
        /\ IF ~done
           THEN /\ n_calls - n_done < limits.steps
                /\ n_done < limits.episodes
                /\ obs_hist' = Record(obs_hist, obs)
                /\ action_hist' = Record(action_hist, action)
                /\ reward_hist' = Record(reward_hist, reward_value)
                /\ UNCHANGED <<q_values, n_values, n_done, g_sum>>
           ELSE LET tabs == EndEpisode(obs, action, reward_value)
                IN  /\ n_done < limits.episodes
                    /\ n_done' = n_done + 1
                    /\ q_values' = tabs[1]
                    /\ n_values' = tabs[2]
                    /\ obs_hist' = <<>>
                    /\ action_hist' = <<>>
                    /\ reward_hist' = <<>>
                    /\ g_sum' = [p \in DOMAIN g_sum |->
                                    IF Occurs(p)
                                    THEN RAdd(g_sum[p], ReturnFrom(FirstVisit(p), FirstVisit(p)))
                                    ELSE g_sum[p]]
        /\ n_calls' = n_calls + 1
        /\ ret' = -1
        /\ raised' = "none"
        /\ UNCHANGED <<config_vars, epsilon, qa_values, qb_values, check_update,
                       file, n_other, n_select, disc_vars>>

MCUpdate ==
    \E done \in BOOLEAN, o \in ObsSet, action \in 0..(num_of_action - 1),
       reward_value \in Rewards :
        mc_update(done, o, action, reward_value)

(***************************************************************************)
(* BaseAlgorithm.get_discretize_action                                     *)
(***************************************************************************)
\* np.random.rand() < epsilon with rand() in [0, 1): the exploration branch
\* can be taken iff epsilon > 0, the greedy branch iff epsilon < 1
CanExplore == RLt(Zero, epsilon)
CanExploit == RLt(epsilon, One)

\* a choice that takes the first table only when it is strictly better
DoubleBestStrict(qa, qb) ==
    LET action_from_q1 == NpArgmax(qa)
        action_from_q2 == NpArgmax(qb)
    IN  IF RLt(qb[action_from_q2 + 1], qa[action_from_q1 + 1])
        THEN action_from_q1 ELSE action_from_q2

\* Double Q greedy choice between the two tables' own best actions
DoubleBest(qa, qb) ==
    LET action_from_q1 == NpArgmax(qa)
        action_from_q2 == NpArgmax(qb)
    IN  IF RLe(qb[action_from_q2 + 1], qa[action_from_q1 + 1])
        THEN action_from_q1 ELSE action_from_q2

get_discretize_action(obs_dis, explore, randint) ==
    /\ control_type \in {"MONTE_CARLO", "DOUBLE_Q_LEARNING"}
    /\ n_select < limits.select
    /\ n_select' = n_select + 1
    /\ IF explore THEN CanExplore ELSE CanExploit
    /\ IF control_type = "DOUBLE_Q_LEARNING"
       THEN /\ UNCHANGED q_values
            /\ IF explore
               THEN /\ ret' = randint
                    /\ UNCHANGED <<qa_values, qb_values>>
               ELSE /\ qa_values' = Materialize(qa_values, obs_dis, num_of_action)
                    /\ qb_values' = Materialize(qb_values, obs_dis, num_of_action)
                    /\ ret' = DoubleBest(qa_values'[obs_dis].vals,
                                         qb_values'[obs_dis].vals)
       ELSE /\ UNCHANGED <<qa_values, qb_values>>
            /\ IF explore
               THEN /\ ret' = randint
                    /\ UNCHANGED q_values
               ELSE /\ q_values' = Materialize(q_values, obs_dis, num_of_action)
                    /\ ret' = NpArgmax(q_values'[obs_dis].vals)
    /\ raised' = "none"
    /\ UNCHANGED <<config_vars, epsilon, n_values, check_update, hist_vars,
                   file, n_calls, n_done, n_other, g_sum, disc_vars>>

GetAction ==
    \E k \in Keys, explore \in BOOLEAN, randint \in 0..(num_of_action - 1) :
        get_discretize_action(k, explore, randint)

(***************************************************************************)
(* BaseAlgorithm.decay_epsilon                                             *)
(***************************************************************************)
\* a decay without the floor
DecayedNoFloor(eps) == RMul(eps, epsilon_decay)

\* a decay that stops at the last value above the floor
DecayedHold(eps) ==
    IF RLt(final_epsilon, RMul(eps, epsilon_decay))
    THEN RMul(eps, epsilon_decay) ELSE eps

\* max(self.epsilon * self.epsilon_decay, self.final_epsilon)
Decayed(eps) == RMax(RMul(eps, epsilon_decay), final_epsilon)

decay_body ==
    /\ epsilon' = Decayed(epsilon)
    /\ ret' = -1
    /\ raised' = "none"
    /\ UNCHANGED <<config_vars, table_vars, check_update, hist_vars,
                   file, n_calls, n_done, n_select, g_sum, disc_vars>>

\* one of the driver's boundedly many calls
decay_epsilon ==
    /\ control_type \in {"MONTE_CARLO", "DOUBLE_Q_LEARNING"}
    /\ n_other < limits.other
    /\ n_other' = n_other + 1
    /\ decay_body

\* the driver calling decay_epsilon after every episode, without end; the
\* call count is kept modulo 2, which keeps the run finite-state
decay_forever ==
    /\ n_other' = (n_other + 1) % 2
    /\ decay_body

(***************************************************************************)
(* Key texts.  A text is a sequence of one-character strings.  str(key)    *)
(* prints a tuple of ints as "(2, 0, 1, 2)" and a tuple of floats as       *)
(* "(2.0, 0.0, 1.0, 2.0)"; load_q_value takes the parentheses off, splits  *)
(* at ", " and applies float() to every piece.  A float equal to an        *)
(* integer is the same dictionary key as that integer, so a parsed key     *)
(* component is written as the integer when it has one.                    *)
(***************************************************************************)
DigitChars == <<"0", "1", "2", "3", "4", "5", "6", "7", "8", "9">>

IsDigit(c) == \E d \in 1..10 : DigitChars[d] = c
DigitVal(c) == (CHOOSE d \in 1..10 : DigitChars[d] = c) - 1

\* str(n) for an int n >= 0
RECURSIVE IntText(_)
IntText(n) ==
    IF n < 10 THEN <<DigitChars[n + 1]>>
    ELSE IntText(n \div 10) \o <<DigitChars[(n % 10) + 1]>>

\* str of one key component: a float prints with ".0"
NumText(f, n) == IF f THEN IntText(n) \o <<".", "0">> ELSE IntText(n)

RECURSIVE JoinFrom(_, _, _)
JoinFrom(f, k, i) ==
    IF i > Len(k) THEN <<>>
    ELSE (IF i = 1 THEN <<>> ELSE <<",", " ">>) \o NumText(f, k[i]) \o JoinFrom(f, k, i + 1)

\* a tuple printed without the blank after each comma
KeyTextCompact(f, k) ==
    <<"(">> \o SelectSeq(JoinFrom(f, k, 1), LAMBDA c : c # " ") \o <<")">>

\* str(k) for a tuple k of two or more components
KeyText(f, k) == <<"(">> \o JoinFrom(f, k, 1) \o <<")">>

\* state.replace('(', '').replace(')', '')
RemoveParens(text) == SelectSeq(text, LAMBDA c : c \notin {"(", ")"})

\* state.strip('()')
RECURSIVE StripParens(_)
StripParens(text) ==
    IF text = <<>> THEN text
    ELSE IF text[1] \in {"(", ")"} THEN StripParens(Tail(text))
    ELSE IF text[Len(text)] \in {"(", ")"} THEN StripParens(SubSeq(text, 1, Len(text) - 1))
    ELSE text

\* text.split(', '): the pieces between the separators, "" included
RECURSIVE SplitFrom(_, _, _)
SplitFrom(text, i, cur) ==
    IF i > Len(text) THEN <<cur>>
    ELSE IF i < Len(text) /\ text[i] = "," /\ text[i + 1] = " "
    THEN <<cur>> \o SplitFrom(text, i + 2, <<>>)
    ELSE SplitFrom(text, i + 1, Append(cur, text[i]))

Split(text) == SplitFrom(text, 1, <<>>)

RECURSIVE DigitsValue(_)
DigitsValue(ds) ==
    IF ds = <<>> THEN 0
    ELSE DigitsValue(SubSeq(ds, 1, Len(ds) - 1)) * 10 + DigitVal(ds[Len(ds)])

\* float(tok): [ok |-> TRUE, v |-> n] for the decimal forms [-]digits and
\* [-]digits.zeros of an integer n, [ok |-> FALSE] (ValueError) for a text
\* that holds a character other than a digit, "-" and ".", no digit, or
\* more than one "."; the files modelled hold no other text
ParseFloat(tok) ==
    LET neg == tok # <<>> /\ tok[1] = "-"
        body == IF neg THEN Tail(tok) ELSE tok
        dots == {i \in 1..Len(body) : body[i] = "."}
        dot == IF dots = {} THEN Len(body) + 1 ELSE CHOOSE i \in dots : TRUE
        ip == SubSeq(body, 1, dot - 1)
        fp == SubSeq(body, dot + 1, Len(body))
        bad == \/ Cardinality(dots) > 1
               \/ Len(ip) + Len(fp) = 0
               \/ \E i \in 1..Len(body) : ~IsDigit(body[i]) /\ body[i] # "."
    IN  CASE bad -> [ok |-> FALSE, v |-> 0]
          [] ~bad /\ (\A i \in 1..Len(fp) : fp[i] = "0") ->
                 [ok |-> TRUE, v |-> (IF neg THEN -1 ELSE 1) * DigitsValue(ip)]

\* tuple(map(float, pieces)): [ok |-> TRUE, key |-> the tuple], or
\* [ok |-> FALSE] when float() raises ValueError
ParseKey(pieces) ==
    LET parsed == [i \in 1..Len(pieces) |-> ParseFloat(pieces[i])]
    IN  IF \E i \in 1..Len(pieces) : ~parsed[i].ok
        THEN [ok |-> FALSE, key |-> <<>>]
        ELSE [ok |-> TRUE, key |-> [i \in 1..Len(pieces) |-> parsed[i].v]]

\* the single-table branch of load_q_value
ParseKeyReplace(text) == ParseKey(Split(RemoveParens(text)))
\* the Double Q branch of load_q_value
ParseKeyStrip(text) == ParseKey(Split(StripParens(text)))

(***************************************************************************)
(* BaseAlgorithm.save_q_value / load_q_value.  A file holds, per section,  *)
(* the entries [text |-> str(key), vals |-> list of numbers] in file       *)
(* order.  A file written by save_q_value also remembers, in "from", the   *)
(* key -> values mappings of the tables it was written from.               *)
(***************************************************************************)
AllNdarray(table) == \A k \in DOMAIN table : table[k].kind = "ndarray"
AllList(table) == \A k \in DOMAIN table : table[k].kind = "list"

\* the elements of a finite set in some order; the order of the entries of
\* a table (insertion order in the code) does not matter to a load of texts
\* that all parse
RECURSIVE SeqOf(_)
SeqOf(S) ==
    IF S = {} THEN <<>>
    ELSE LET x == CHOOSE y \in S : TRUE IN <<x>> \o SeqOf(S \ {x})

\* {str(k): v.tolist() for k, v in table.items()}
StrKeys(table) ==
    LET ks == SeqOf(DOMAIN table)
    IN  [i \in 1..Len(ks) |->
            [text |-> KeyText(table[ks[i]].fkey, ks[i]), vals |-> table[ks[i]].vals]]

\* key -> values of a table
Plain(table) == [k \in DOMAIN table |-> table[k].vals]

\* try: v.tolist() for every entry; except: the values as they are.
\* json.dump then accepts lists only.
Dumpable(table) == AllNdarray(table) \/ AllList(table)

save_q_value ==
    /\ control_type \in {"MONTE_CARLO", "DOUBLE_Q_LEARNING"}
    /\ n_other < limits.other
    /\ n_other' = n_other + 1
    /\ ret' = -1
    /\ IF control_type = "DOUBLE_Q_LEARNING"
       THEN IF AllNdarray(qa_values) /\ AllNdarray(qb_values)
            THEN /\ file' = [status |-> "ok",
                             sections |-> {"qa_values", "qb_values"},
                             q_values |-> <<>>, n_values |-> <<>>,
                             qa_values |-> StrKeys(qa_values),
                             qb_values |-> StrKeys(qb_values),
                             from |-> [qa_values |-> Plain(qa_values),
                                       qb_values |-> Plain(qb_values)]]
                 /\ raised' = "none"
            ELSE \* .tolist() on a list, before the file is opened
                 /\ file' = file
                 /\ raised' = "AttributeError"
       ELSE IF Dumpable(q_values) /\ Dumpable(n_values)
            THEN /\ file' = [status |-> "ok",
                             sections |-> {"q_values", "n_values"},
                             q_values |-> StrKeys(q_values),
                             n_values |-> StrKeys(n_values),
                             qa_values |-> <<>>, qb_values |-> <<>>,
                             from |-> [q_values |-> Plain(q_values),
                                       n_values |-> Plain(n_values)]]
                 /\ raised' = "none"
            ELSE \* json.dump meets an ndarray after open(full_path, 'w')
                 /\ file' = [NoFile EXCEPT !.status = "partial"]
                 /\ raised' = "TypeError"
    /\ UNCHANGED <<config_vars, epsilon, table_vars, check_update, hist_vars,
                   n_calls, n_done, n_select, g_sum, disc_vars>>

\* an assignment that leaves the loaded key alone in the table
InstallOnly(table, k, vals) ==
    [j \in {k} |-> [vals |-> vals, kind |-> "list", fkey |-> TRUE]]

\* table[tuple_state] = values.copy(): the value is a list; an existing key
\* keeps its key object
Install(table, k, vals) ==
    [j \in DOMAIN table \cup {k} |->
        IF j = k
        THEN [vals |-> vals, kind |-> "list",
              fkey |-> IF k \in DOMAIN table THEN table[k].fkey ELSE TRUE]
        ELSE table[j]]

\* for state, values in section.items(): table[parse(state)] = values.copy()
\* from entry i on; stops at the first text float() rejects
RECURSIVE LoadLoop(_, _, _, _)
LoadLoop(table, section, i, strip) ==
    IF i > Len(section) THEN [table |-> table, raised |-> "none"]
    ELSE LET k == IF strip THEN ParseKeyStrip(section[i].text)
                  ELSE ParseKeyReplace(section[i].text)
         IN  IF ~k.ok
             THEN [table |-> table, raised |-> "ValueError"]
             ELSE LoadLoop(Install(table, k.key, section[i].vals), section,
                           i + 1, strip)

\* load_q_value reading the file f
load_from(f) ==
    /\ control_type \in {"MONTE_CARLO", "DOUBLE_Q_LEARNING"}
    /\ ret' = -1
    /\ IF f.status = "absent"
       THEN /\ raised' = "FileNotFoundError"
            /\ UNCHANGED table_vars
       ELSE IF f.status = "partial"
       THEN /\ raised' = "JSONDecodeError"
            /\ UNCHANGED table_vars
       ELSE IF control_type = "DOUBLE_Q_LEARNING"
       THEN IF {"qa_values", "qb_values"} \subseteq f.sections
            THEN LET a == LoadLoop(qa_values, f.qa_values, 1, TRUE)
                     b == LoadLoop(qb_values, f.qb_values, 1, TRUE)
                 IN  /\ qa_values' = a.table
                     /\ qb_values' = IF a.raised = "none" THEN b.table ELSE qb_values
                     /\ raised' = IF a.raised = "none" THEN b.raised ELSE a.raised
                     /\ UNCHANGED <<q_values, n_values>>
            ELSE /\ raised' = "KeyError"
                 /\ UNCHANGED table_vars
       ELSE IF "q_values" \notin f.sections
            THEN /\ raised' = "KeyError"
                 /\ UNCHANGED table_vars
            ELSE LET q == LoadLoop(q_values, f.q_values, 1, FALSE)
                 IN  /\ q_values' = q.table
                     /\ IF q.raised # "none"
                        THEN /\ n_values' = n_values
                             /\ raised' = q.raised
                        ELSE IF "n_values" \notin f.sections
                        THEN /\ n_values' = n_values
                             /\ raised' = "KeyError"
                        ELSE LET n == LoadLoop(n_values, f.n_values, 1, FALSE)
                             IN  /\ n_values' = n.table
                                 /\ raised' = n.raised
                     /\ UNCHANGED <<qa_values, qb_values>>
    /\ UNCHANGED <<config_vars, epsilon, check_update, hist_vars, file,
                   n_calls, n_done, n_select, g_sum, disc_vars>>

\* load_q_value of the checkpoint this program saves
load_q_value ==
    /\ n_other < limits.other
    /\ n_other' = n_other + 1
    /\ load_from(file)

(***************************************************************************)
(* One instance driven by any sequence of calls.                           *)
(***************************************************************************)
InitMC ==
    /\ \E c \in Configs : init("MONTE_CARLO", c)
    /\ limits \in Limits

NextMC ==
    MCUpdate \/ GetAction \/ decay_epsilon \/ save_q_value \/ load_q_value

SpecMC == InitMC /\ [][NextMC]_vars

InitDQ ==
    /\ \E c \in Configs : init("DOUBLE_Q_LEARNING", c)
    /\ limits \in Limits

NextDQ ==
    DQUpdate \/ GetAction \/ decay_epsilon \/ save_q_value \/ load_q_value

SpecDQ == InitDQ /\ [][NextDQ]_vars

\* an instance of either variant
InitAny == InitMC \/ InitDQ

NextAny == NextMC \/ NextDQ

SpecAny == InitAny /\ [][NextAny]_vars

(***************************************************************************)
(* Checkpoint and restart: the program saves a checkpoint, and a new       *)
(* instance of the same variant and configuration is constructed while the *)
(* file stays on disk; the counters keep counting the program's calls.     *)
(***************************************************************************)
MaxRestarts == 1

RestartLimits ==
    { [steps |-> MaxSteps - 1, episodes |-> MaxEpisodes - 1,
       other |-> MaxOther + 1, select |-> MaxSelect, restart |-> MaxRestarts] }

\* the initial_epsilon of the configuration in use
InitialEpsilon ==
    (CHOOSE c \in Configs : /\ c[1] = lr
                            /\ c[2] = discount_factor
                            /\ c[4] = epsilon_decay
                            /\ c[5] = final_epsilon)[3]

\* BaseAlgorithm.__init__ run again with the same arguments
new_instance ==
    /\ control_type \in {"MONTE_CARLO", "DOUBLE_Q_LEARNING"}
    /\ limits.restart > 0
    /\ limits' = [limits EXCEPT !.restart = @ - 1]
    /\ epsilon' = InitialEpsilon
    /\ q_values' = <<>>
    /\ n_values' = <<>>
    /\ qa_values' = <<>>
    /\ qb_values' = <<>>
    /\ check_update' = TRUE
    /\ obs_hist' = <<>>
    /\ action_hist' = <<>>
    /\ reward_hist' = <<>>
    /\ ret' = -1
    /\ raised' = "none"
    /\ g_sum' = [p \in Keys \X Actions |-> Zero]
    /\ UNCHANGED <<control_type, num_of_action, action_range,
                   discretize_state_weight, lr, discount_factor, epsilon_decay,
                   final_epsilon, file, count_vars, disc_vars>>

InitRestart ==
    /\ \E c \in Configs : init("MONTE_CARLO", c) \/ init("DOUBLE_Q_LEARNING", c)
    /\ limits \in RestartLimits

NextRestart ==
    \/ MCUpdate
    \/ DQUpdate
    \/ GetAction
    \/ decay_epsilon
    \/ save_q_value
    \/ load_q_value
    \/ new_instance

SpecRestart == InitRestart /\ [][NextRestart]_vars

(***************************************************************************)
(* Calls outside the contract: an update with an action index out of       *)
(* range, and load_q_value pointed at a file this instance did not write.  *)
(***************************************************************************)
FaultLimits ==
    { [steps |-> MaxSteps - 1, episodes |-> MaxEpisodes - 1,
       other |-> MaxOther, select |-> MaxSelect, restart |-> 0] }

\* a row of num_of_action numbers, 1 then zeros
UnitRow == [i \in 1..NumActions |-> IF i = 1 THEN One ELSE Zero]

FileKey == discretize_state([i \in 1..4 |-> InstBins], <<0, 0, 0, 0>>)
OtherFileKey == discretize_state([i \in 1..4 |-> InstBins], <<5, 0, 0, 0>>)

GoodEntry == [text |-> KeyText(FALSE, FileKey), vals |-> UnitRow]
\* a key text written without blanks, "(2,2,2,2)": float() rejects the piece
BadEntry ==
    [text |-> SelectSeq(KeyText(FALSE, OtherFileKey), LAMBDA c : c # " "),
     vals |-> UnitRow]

\* a checkpoint as a single-table variant writes it: q_values only
SingleTableFile ==
    [status |-> "ok", sections |-> {"q_values"},
     q_values |-> <<GoodEntry>>, n_values |-> <<>>,
     qa_values |-> <<>>, qb_values |-> <<>>, from |-> <<>>]

\* a Monte Carlo checkpoint whose second q_values key text is malformed
DamagedMCFile ==
    [status |-> "ok", sections |-> {"q_values", "n_values"},
     q_values |-> <<GoodEntry, BadEntry>>, n_values |-> <<GoodEntry>>,
     qa_values |-> <<>>, qb_values |-> <<>>, from |-> <<>>]

\* a Double Q checkpoint whose second qa_values key text is malformed
DamagedDQFile ==
    [status |-> "ok", sections |-> {"qa_values", "qb_values"},
     q_values |-> <<>>, n_values |-> <<>>,
     qa_values |-> <<GoodEntry, BadEntry>>, qb_values |-> <<GoodEntry>>,
     from |-> <<>>]

ForeignFiles == {SingleTableFile, DamagedMCFile, DamagedDQFile}

\* load_q_value of one of these files
load_foreign ==
    /\ n_other < limits.other
    /\ n_other' = n_other + 1
    /\ \E f \in ForeignFiles : load_from(f)

InitFault ==
    /\ \E c \in Configs : init("MONTE_CARLO", c) \/ init("DOUBLE_Q_LEARNING", c)
    /\ limits \in FaultLimits

NextFault ==
    \/ NextAny
    \/ DQUpdateBadAction
    \/ load_foreign

SpecFault == InitFault /\ [][NextFault]_vars

(***************************************************************************)
(* decay_epsilon called again and again on one instance.  The driver calls *)
(* it once per episode, so it is never postponed forever.  Configurations  *)
(* with final_epsilon = 0, epsilon_decay < 1 and initial_epsilon > 0 are   *)
(* left out: in exact arithmetic epsilon then takes infinitely many values.*)
(***************************************************************************)
EpsInitials == {Rat(-1, 1), Zero, Rat(1, 4), Rat(1, 2), One, Rat(2, 1), Rat(5, 1)}
EpsDecays == {Rat(1, 2), Rat(3, 4), One}
EpsFinals == {Zero, Rat(1, 9), Rat(1, 3), Rat(3, 4)}

InitEpsilon ==
    /\ \E e \in EpsInitials, d \in EpsDecays, f \in EpsFinals :
          /\ ~(f = Zero /\ RLt(d, One) /\ RLt(Zero, e))
          /\ init("MONTE_CARLO", <<One, One, e, d, f>>)
    /\ limits = [steps |-> 0, episodes |-> 0, other |-> 0, select |-> 0,
                 restart |-> 0]

NextEpsilon == decay_forever

SpecEpsilon == InitEpsilon /\ [][NextEpsilon]_vars /\ WF_vars(decay_forever)

(***************************************************************************)
(* discretize_state as a pure function: the bin counts are drawn at        *)
(* construction, a call draws a raw observation.                           *)
(***************************************************************************)
MaxBins == 3
Far == 100

RawValues(b) == {-b - Far, -b - 1, -b, -1, 0, 1, b, b + Far}

InitDiscretize ==
    /\ control_type = "NONE"
    /\ num_of_action = 0
    /\ lr = Zero
    /\ discount_factor = Zero
    /\ epsilon = Zero
    /\ epsilon_decay = Zero
    /\ final_epsilon = Zero
    /\ q_values = <<>>
    /\ n_values = <<>>
    /\ qa_values = <<>>
    /\ qb_values = <<>>
    /\ check_update = TRUE
    /\ obs_hist = <<>>
    /\ action_hist = <<>>
    /\ reward_hist = <<>>
    /\ file = NoFile
    /\ ret = -1
    /\ raised = "none"
    /\ limits = [steps |-> 0, episodes |-> 0, other |-> 0, select |-> 0,
                 restart |-> 0]
    /\ n_calls = 0
    /\ n_done = 0
    /\ n_other = 0
    /\ n_select = 0
    /\ g_sum = <<>>
    /\ discretize_state_weight \in [1..4 -> 1..MaxBins]
    /\ disc_obs = <<>>
    /\ disc_key = <<>>
    /\ action_range = <<Zero, Zero>>
    /\ map_action = -1
    /\ map_value = <<>>

\* the first call on an observation
CallDiscretize ==
    /\ disc_obs = <<>>
    /\ \E a \in RawValues(Bounds[1]), b \in RawValues(Bounds[2]),
          c \in RawValues(Bounds[3]), d \in RawValues(Bounds[4]) :
           /\ disc_obs' = <<a, b, c, d>>
           /\ disc_key' = discretize_state(discretize_state_weight, <<a, b, c, d>>)
    /\ UNCHANGED <<config_vars, epsilon, table_vars, check_update, hist_vars,
                   file, ret, raised, count_vars, g_sum, map_action, map_value>>

\* a repeated call on the same observation
RecallDiscretize ==
    /\ disc_obs # <<>>
    /\ disc_key' = discretize_state(discretize_state_weight, disc_obs)
    /\ UNCHANGED <<config_vars, epsilon, table_vars, check_update, hist_vars,
                   file, ret, raised, count_vars, g_sum, disc_obs,
                   map_action, map_value>>

NextDiscretize == CallDiscretize \/ RecallDiscretize

SpecDiscretize == InitDiscretize /\ [][NextDiscretize]_vars

(***************************************************************************)
(* BaseAlgorithm.mapping_action as a pure function: num_of_action and      *)
(* action_range are drawn at construction, a call draws an action index.   *)
(* torch.tensor(..., dtype=torch.float32) is the exact value here.         *)
(***************************************************************************)
MaxMapActions == 4

RangeEnds == {Rat(-20, 1), Rat(-1, 1), Rat(-1, 2), Zero, Rat(1, 3), Rat(20, 1)}

\* a scaling that divides by the number of actions
MappingActionByCount(action) ==
    LET action_min == action_range[1]
        action_max == action_range[2]
    IN  IF num_of_action = 1 THEN action_min
        ELSE RAdd(action_min,
                  RMul(RDiv(Rat(action, 1), Rat(num_of_action, 1)),
                       RSub(action_max, action_min)))

\* action_min + (action / (num_of_action - 1)) * (action_max - action_min)
MappingAction(action) ==
    LET action_min == action_range[1]
        action_max == action_range[2]
    IN  IF num_of_action = 1 THEN action_min
        ELSE RAdd(action_min,
                  RMul(RDiv(Rat(action, 1), Rat(num_of_action - 1, 1)),
                       RSub(action_max, action_min)))

InitMapping ==
    /\ control_type = "NONE"
    /\ lr = Zero
    /\ discount_factor = Zero
    /\ epsilon = Zero
    /\ epsilon_decay = Zero
    /\ final_epsilon = Zero
    /\ discretize_state_weight = [i \in 1..4 |-> InstBins]
    /\ q_values = <<>>
    /\ n_values = <<>>
    /\ qa_values = <<>>
    /\ qb_values = <<>>
    /\ check_update = TRUE
    /\ obs_hist = <<>>
    /\ action_hist = <<>>
    /\ reward_hist = <<>>
    /\ file = NoFile
    /\ ret = -1
    /\ raised = "none"
    /\ limits = [steps |-> 0, episodes |-> 0, other |-> 0, select |-> 0,
                 restart |-> 0]
    /\ n_calls = 0
    /\ n_done = 0
    /\ n_other = 0
    /\ n_select = 0
    /\ g_sum = <<>>
    /\ disc_obs = <<>>
    /\ disc_key = <<>>
    /\ num_of_action \in 1..MaxMapActions
    /\ \E lo \in RangeEnds, hi \in RangeEnds :
          /\ RLe(lo, hi)
          /\ action_range = <<lo, hi>>
    /\ map_action = -1
    /\ map_value = <<>>

mapping_action(action) ==
    /\ control_type = "NONE"
    /\ map_action' = action
    /\ map_value' = MappingAction(action)
    /\ UNCHANGED <<config_vars, epsilon, table_vars, check_update, hist_vars,
                   file, ret, raised, count_vars, g_sum, disc_obs, disc_key>>

NextMapping == \E action \in 0..(num_of_action - 1) : mapping_action(action)

SpecMapping == InitMapping /\ [][NextMapping]_vars

(***************************************************************************)
(* Properties.                                                             *)
(***************************************************************************)
\* the value a lookup of table[k][a] sees: zero when the key is absent
Val(table, k, a) == IF k \in DOMAIN table THEN table[k].vals[a + 1] ELSE Zero

\* the greatest element of a non-empty sequence of rationals
MaxOf(vals) ==
    CHOOSE v \in {vals[j] : j \in 1..Len(vals)} :
        \A j \in 1..Len(vals) : RLe(vals[j], v)

Key(o) == discretize_state(discretize_state_weight, o)

\* what one Double Q update must do to the selected table T (T2 after the
\* call) and the other table O (O2 after the call)
DQPost(T, T2, O, O2, s, a, r, s2) ==
    LET m == IF s2 \in DOMAIN O THEN MaxOf(O[s2].vals) ELSE Zero
        old == Val(T, s, a)
    IN  /\ Val(T2, s, a) =
               RAdd(old, RMul(lr, RSub(RAdd(r, RMul(discount_factor, m)), old)))
        /\ DOMAIN T2 = DOMAIN T \cup {s}
        /\ \A k \in DOMAIN T2, i \in Actions :
               <<k, i>> # <<s, a>> => Val(T2, k, i) = Val(T, k, i)
        /\ O2 = O
        /\ q_values' = q_values
        /\ epsilon' = epsilon

\* C1: a Double Q update changes exactly the slot [s][action] of the table
\* the toggle selects, to old + lr * (reward + gamma * m - old) with m the
\* maximum of the other table at s' (0 when s' is not a key of it); the
\* other table (entries and key set), q_values and epsilon are unchanged.
C1_DoubleQUpdate ==
    [][\A o \in ObsSet, no \in ObsSet, a \in Actions, r \in Rewards :
          dq_update(o, a, r, no) =>
              IF check_update
              THEN DQPost(qa_values, qa_values', qb_values, qb_values',
                          Key(o), a, r, Key(no))
              ELSE DQPost(qb_values, qb_values', qa_values, qa_values',
                          Key(o), a, r, Key(no))]_vars

\* C1 witness: after two updates Qb holds a value above every reward, so
\* it was bootstrapped from the maximum of Qa
C1_Witness ==
    /\ control_type = "DOUBLE_Q_LEARNING"
    /\ n_calls = 2
    /\ \E k \in DOMAIN qb_values, i \in Actions : RLt(One, Val(qb_values, k, i))

\* C2: the k-th update call writes Qa when k is odd and Qb when k is even,
\* every update call flips the toggle and nothing else changes it.
C2_ToggleAlternates ==
    [][/\ check_update = (n_calls % 2 = 0)
       /\ check_update' = (n_calls' % 2 = 0)
       /\ check_update' # check_update =>
              \E o \in ObsSet, no \in ObsSet, a \in Actions, r \in Rewards :
                  dq_update(o, a, r, no)
       /\ \A o \in ObsSet, no \in ObsSet, a \in Actions, r \in Rewards :
              dq_update(o, a, r, no) =>
                  /\ check_update' = ~check_update
                  /\ n_calls' % 2 = 1 =>
                         qb_values' = qb_values /\ Key(o) \in DOMAIN qa_values'
                  /\ n_calls' % 2 = 0 =>
                         qa_values' = qa_values /\ Key(o) \in DOMAIN qb_values']_vars

\* C2 witness: two updates, interleaved with other calls, have run
C2_Witness ==
    /\ control_type = "DOUBLE_Q_LEARNING"
    /\ n_calls = 2
    /\ n_other = 2
    /\ n_select = 1
    /\ check_update
    /\ qa_values # <<>>
    /\ qb_values # <<>>

\* C8 as stated: epsilon never increases for any initial_epsilon.
C8_Original ==
    [][/\ RLe(epsilon', epsilon)
       /\ decay_epsilon =>
              /\ epsilon' = RMax(RMul(epsilon, epsilon_decay), final_epsilon)
              /\ RLe(final_epsilon, epsilon')
       /\ epsilon' # epsilon => decay_epsilon]_vars

\* C8 (amended): each decay_epsilon call sets epsilon to
\* max(epsilon * epsilon_decay, final_epsilon), so epsilon >= final_epsilon
\* after every call; epsilon does not increase when it was at or above
\* final_epsilon before the call; one call from 1 with decay 9/10 gives
\* 9/10; no other operation changes epsilon.
C8_EpsilonDecay ==
    [][/\ decay_epsilon =>
              LET prod == RMul(epsilon, epsilon_decay)
              IN  /\ epsilon' \in {prod, final_epsilon}
                  /\ RLe(prod, epsilon')
                  /\ RLe(final_epsilon, epsilon')
                  /\ RLe(final_epsilon, epsilon) => RLe(epsilon', epsilon)
                  /\ (epsilon = One /\ epsilon_decay = Rat(9, 10)) =>
                         epsilon' = Rat(9, 10)
       /\ epsilon' # epsilon => decay_epsilon]_vars

\* C8 witness: two decays from 1 with decay 9/10, above the floor
C8_Witness ==
    /\ n_other = 2
    /\ epsilon = Rat(81, 100)
    /\ RLt(final_epsilon, epsilon)

UpperBucket(B) == IF B = 1 THEN 1 ELSE B - 1

\* C10 as stated: a value at or above the upper bound gets bucket B.
C10_Original ==
    disc_obs # <<>> =>
        \A i \in 1..4 :
            /\ disc_key[i] \in 0..discretize_state_weight[i]
            /\ disc_obs[i] <= -Bounds[i] - Far => disc_key[i] = 0
            /\ disc_obs[i] >= Bounds[i] => disc_key[i] = discretize_state_weight[i]

\* C10 (amended): a value at or below the lower bound gets bucket 0, a
\* value at or above the upper bound gets bucket B - 1 (bucket 1 when
\* B = 1); a value at or beyond a bound gets the bucket of the bound; every
\* component lies in [0, B]; a repeated call returns the same key.
C10_Discretize ==
    disc_obs # <<>> =>
        /\ disc_key = discretize_state(discretize_state_weight, disc_obs)
        /\ \A i \in 1..4 :
            LET B == discretize_state_weight[i]
                x == disc_obs[i]
                at(v) == discretize_state(discretize_state_weight,
                                          [disc_obs EXCEPT ![i] = v])[i]
            IN  /\ disc_key[i] \in 0..B
                /\ x <= -Bounds[i] => disc_key[i] = 0 /\ disc_key[i] = at(-Bounds[i])
                /\ x >= Bounds[i] =>
                       disc_key[i] = UpperBucket(B) /\ disc_key[i] = at(Bounds[i])

\* C10 witness: with 3 bins, one component far above its bound in bucket 2,
\* one far below in bucket 0, one strictly inside
C10_Witness ==
    /\ disc_obs # <<>>
    /\ discretize_state_weight = <<3, 3, 3, 3>>
    /\ disc_obs[1] = Bounds[1] + Far /\ disc_key[1] = 2
    /\ disc_obs[2] = -Bounds[2] - Far /\ disc_key[2] = 0
    /\ disc_obs[3] = 1 /\ disc_key[3] = 2
    /\ disc_obs[4] = 0 /\ disc_key[4] = 1

\* C3: an MC.update call with done = false appends the discretized obs, the
\* action and the reward to the three histories and changes nothing else;
\* the three histories always have the same length.
C3_MCStepAppends ==
    /\ [](Len(obs_hist) = Len(action_hist) /\ Len(action_hist) = Len(reward_hist))
    /\ [][\A o \in ObsSet, a \in Actions, r \in Rewards :
             mc_update(FALSE, o, a, r) =>
                 /\ obs_hist' = obs_hist \o <<Key(o)>>
                 /\ action_hist' = action_hist \o <<a>>
                 /\ reward_hist' = reward_hist \o <<r>>
                 /\ q_values' = q_values
                 /\ n_values' = n_values
                 /\ UNCHANGED <<qa_values, qb_values, epsilon, file>>]_vars

\* C3 witness: two steps recorded in an episode that follows a completed,
\* non-empty one
C3_Witness ==
    /\ control_type = "MONTE_CARLO"
    /\ Len(obs_hist) = 2
    /\ n_done = 1
    /\ q_values # <<>>

DoneStep(o, a, r) == mc_update(TRUE, o, a, r)

\* C4: an MC.update call with done = true gives the same tables whatever
\* obs, action and reward it is passed, leaves the three histories empty,
\* and with an empty history changes no table and raises nothing; nothing
\* else ever shortens a history.
C4_MCDone ==
    [][/\ (\E o \in ObsSet, a \in Actions, r \in Rewards : DoneStep(o, a, r)) =>
              /\ \A o \in ObsSet, a \in Actions, r \in Rewards : DoneStep(o, a, r)
              /\ obs_hist' = <<>> /\ action_hist' = <<>> /\ reward_hist' = <<>>
              /\ obs_hist = <<>> =>
                     /\ q_values' = q_values
                     /\ n_values' = n_values
                     /\ raised' = "none"
       /\ (\/ Len(obs_hist') < Len(obs_hist)
           \/ Len(action_hist') < Len(action_hist)
           \/ Len(reward_hist') < Len(reward_hist)) =>
              \E o \in ObsSet, a \in Actions, r \in Rewards : DoneStep(o, a, r)]_vars

\* C4 witness: a two-step episode has been completed
C4_Witness ==
    /\ control_type = "MONTE_CARLO"
    /\ n_calls = 3
    /\ n_done = 1
    /\ obs_hist = <<>>
    /\ q_values # <<>>

\* C5: an MC.update call with done = true raises N of every (state, action)
\* pair of the history by exactly 1 and leaves every other N alone; no
\* MC.update call lowers an N or removes a key of n_values.
C5_FirstVisitCounts ==
    [][\A d \in BOOLEAN, o \in ObsSet, a \in Actions, r \in Rewards :
          mc_update(d, o, a, r) =>
              /\ d => \A p \in Keys \X Actions :
                          Val(n_values', p[1], p[2]) =
                              RAdd(Val(n_values, p[1], p[2]),
                                   IF Occurs(p) THEN One ELSE Zero)
              /\ \A p \in Keys \X Actions :
                     RLe(Val(n_values, p[1], p[2]), Val(n_values', p[1], p[2]))
              /\ DOMAIN n_values \subseteq DOMAIN n_values']_vars

\* C5 witness: an episode of two steps, both on the same (state, action)
\* pair, has been completed and the pair's count is 1
C5_Witness ==
    /\ control_type = "MONTE_CARLO"
    /\ n_calls = 3
    /\ n_done = 1
    /\ \E k \in Keys, a \in Actions :
          /\ DOMAIN n_values = {k}
          /\ \A i \in Actions :
                 Val(n_values, k, i) = IF i = a THEN One ELSE Zero

\* C6: at an episode end, Q of every pair of the history becomes
\* Q + (G_t - Q) / N with t the pair's first step, G_t the discounted sum of
\* the rewards from t on and N the count after its increment, whatever lr
\* is; rewards [1, 1] with gamma = 1 give returns [2, 1]; as long as only
\* updates and action selections were called, Q * N is the sum of the
\* pair's first-visit returns (Q is their mean).
C6_MCReturnsAndMean ==
    /\ [](/\ discount_factor = One => ReturnList(<<One, One>>) = <<Rat(2, 1), One>>
          /\ (control_type = "MONTE_CARLO" /\ n_other = 0) =>
                 \A p \in Keys \X Actions :
                     IF Val(n_values, p[1], p[2]) = Zero
                     THEN Val(q_values, p[1], p[2]) = Zero /\ g_sum[p] = Zero
                     ELSE RMul(Val(q_values, p[1], p[2]), Val(n_values, p[1], p[2]))
                              = g_sum[p])
    /\ [][\A o \in ObsSet, a \in Actions, r \in Rewards :
             mc_update(TRUE, o, a, r) =>
                 \A p \in Keys \X Actions :
                     LET old == Val(q_values, p[1], p[2])
                     IN  Val(q_values', p[1], p[2]) =
                             IF Occurs(p)
                             THEN RAdd(old,
                                       RDiv(RSub(ReturnFrom(FirstVisit(p), FirstVisit(p)), old),
                                            Val(n_values', p[1], p[2])))
                             ELSE old]_vars

\* C6 witness: a pair visited first in two episodes, with returns 2 and 1,
\* has N = 2 and Q = 3/2
C6_Witness ==
    /\ control_type = "MONTE_CARLO"
    /\ n_done = 2
    /\ \E p \in Keys \X Actions :
          /\ Val(n_values, p[1], p[2]) = Rat(2, 1)
          /\ Val(q_values, p[1], p[2]) = Rat(3, 2)

\* the lowest index (from 0) at which vals attains its maximum
LowestMaxIndex(vals) ==
    CHOOSE i \in 0..(Len(vals) - 1) :
        /\ \A j \in 1..Len(vals) : RLe(vals[j], vals[i + 1])
        /\ \A j \in 1..i : RLt(vals[j], vals[i + 1])

Row(table, k) == [i \in 1..num_of_action |-> Val(table, k, i - 1)]

\* C7: for a single-table variant, get_discretize_action with epsilon = 0
\* returns the lowest index of the maximum of q_values[state] (0 for an
\* unseen state); with epsilon = 1 it takes the exploring branch, creates
\* no entry and may return any index; it never changes an existing slot.
C7_EpsilonGreedy ==
    /\ []((control_type = "MONTE_CARLO" /\ epsilon = One /\ n_select < limits.select)
              => \A i \in Actions : ENABLED (GetAction /\ ret' = i))
    /\ [][\A k \in Keys, e \in BOOLEAN, i \in Actions :
             (control_type = "MONTE_CARLO" /\ get_discretize_action(k, e, i)) =>
                 /\ epsilon = Zero => ret' = LowestMaxIndex(Row(q_values, k))
                 /\ epsilon = One => e /\ q_values' = q_values /\ ret' \in Actions
                 /\ \A k2 \in DOMAIN q_values : q_values'[k2] = q_values[k2]
                 /\ n_values' = n_values]_vars

\* C7 witness: with epsilon = 0 the call returned index 1, the only maximum
C7_Witness ==
    /\ control_type = "MONTE_CARLO"
    /\ epsilon = Zero
    /\ n_select = 1
    /\ ret = 1
    /\ \E k \in DOMAIN q_values : RLt(Val(q_values, k, 0), Val(q_values, k, 1))

\* epsilon = final_epsilon
AtFloor == epsilon = final_epsilon
\* epsilon <= final_epsilon
BelowOrAtFloor == \E e \in {epsilon}, f \in {final_epsilon} : RLe(e, f)
\* epsilon_decay < 1 and final_epsilon > 0
Shrinking == epsilon_decay[1] < epsilon_decay[2] /\ final_epsilon[1] > 0

\* C9 as stated: for every configuration epsilon reaches final_epsilon
\* after finitely many calls and stays there.
C9_Original ==
    /\ <>AtFloor
    /\ [][AtFloor => AtFloor']_vars

\* C9 (amended): once epsilon equals final_epsilon every further call
\* leaves it there; epsilon reaches final_epsilon after finitely many calls
\* when epsilon_decay < 1 and final_epsilon > 0, and from any epsilon at or
\* below final_epsilon; with epsilon_decay = 1 a call leaves an epsilon
\* above final_epsilon as it is, so it never reaches final_epsilon.
C9_Converges ==
    /\ <>[](Shrinking => AtFloor)
    /\ [](BelowOrAtFloor => <>[]AtFloor)
    /\ [][/\ AtFloor => AtFloor'
          /\ (epsilon_decay = One /\ ~BelowOrAtFloor) => epsilon' = epsilon]_vars

\* C9 witness: epsilon has been floored at a final_epsilon that no
\* instance starts with
C9_Witness ==
    /\ epsilon = final_epsilon
    /\ final_epsilon = Rat(1, 3)
    /\ epsilon_decay = Rat(3, 4)

\* action_min + i * (action_max - action_min) / (num_of_action - 1)
Scaled(i) ==
    RAdd(action_range[1],
         RDiv(RMul(Rat(i, 1), RSub(action_range[2], action_range[1])),
              Rat(num_of_action - 1, 1)))

FreshTables ==
    /\ q_values = <<>>
    /\ n_values = <<>>
    /\ qa_values = <<>>
    /\ qb_values = <<>>

\* C12: load_q_value of a file written by save_q_value into an instance
\* with empty tables of the same variant and configuration raises nothing
\* and leaves every saved table with the keys and the per-action values the
\* saving instance had; every key of every table is an integer tuple that
\* discretize_state can return, so a lookup with such a key finds the entry.
C12_RoundTrip ==
    /\ [](control_type \in {"MONTE_CARLO", "DOUBLE_Q_LEARNING"} =>
             /\ DOMAIN q_values \subseteq Keys
             /\ DOMAIN n_values \subseteq Keys
             /\ DOMAIN qa_values \subseteq Keys
             /\ DOMAIN qb_values \subseteq Keys)
    /\ [][(load_q_value /\ FreshTables /\ file.status = "ok") =>
             /\ raised' = "none"
             /\ control_type = "MONTE_CARLO" =>
                    /\ Plain(q_values') = file.from.q_values
                    /\ Plain(n_values') = file.from.n_values
             /\ control_type = "DOUBLE_Q_LEARNING" =>
                    /\ Plain(qa_values') = file.from.qa_values
                    /\ Plain(qb_values') = file.from.qb_values]_vars

\* C12 witness: a new Double Q instance has loaded a checkpoint written
\* after two updates and holds both tables as they were saved
C12_Witness ==
    /\ control_type = "DOUBLE_Q_LEARNING"
    /\ limits.restart = 0
    /\ n_calls = 2
    /\ n_other = 2
    /\ raised = "none"
    /\ qa_values # <<>>
    /\ qb_values # <<>>
    /\ AllList(qa_values)
    /\ AllList(qb_values)
    /\ file.status = "ok"
    /\ Plain(qa_values) = file.from.qa_values
    /\ Plain(qb_values) = file.from.qb_values
    /\ \E k \in DOMAIN qb_values, i \in Actions : RLt(Zero, qb_values[k].vals[i + 1])

Zeros == [i \in 1..num_of_action |-> Zero]

Tables == <<q_values, n_values, qa_values, qb_values>>

C14_DoubleGreedy ==
    [][\A k \in Keys, i \in Actions :
          (control_type = "DOUBLE_Q_LEARNING" /\ get_discretize_action(k, FALSE, i)) =>
              LET a == LowestMaxIndex(Row(qa_values, k))
                  b == LowestMaxIndex(Row(qb_values, k))
              IN  ret' = IF RLe(Val(qb_values, k, b), Val(qa_values, k, a))
                         THEN a ELSE b]_vars

\* C14 witness: Qa's best is index 0, Qb's best is index 1, the two best
\* values tie above zero, and the greedy call returned 0
C14_Witness ==
    /\ control_type = "DOUBLE_Q_LEARNING"
    /\ n_select = 1
    /\ n_other = 0
    /\ epsilon = Zero
    /\ ret = 0
    /\ \E k \in Keys :
          /\ RLt(Zero, Val(qa_values, k, 0))
          /\ Val(qa_values, k, 1) = Zero
          /\ Val(qb_values, k, 0) = Zero
          /\ Val(qb_values, k, 1) = Val(qa_values, k, 0)
          /\ \A k2 \in Keys \ {k} : Val(qa_values, k2, 0) = Zero /\ Val(qb_values, k2, 1) = Zero

\* C15 as stated: every Double Q update call, also one that raises, leaves
\* the toggle flipped.
C15_ToggleFlipsOnFailure ==
    [][\A o \in ObsSet, no \in ObsSet, a \in 0..num_of_action, r \in Rewards :
           dq_update(o, a, r, no) => check_update' = ~check_update]_vars

\* C16 as stated: every save_q_value call completes without raising and
\* writes every entry of every table of the variant.
C16_SaveAlwaysSucceeds ==
    [][save_q_value =>
          /\ raised' = "none"
          /\ file'.status = "ok"
          /\ control_type = "MONTE_CARLO" =>
                 /\ file'.from.q_values = Plain(q_values)
                 /\ file'.from.n_values = Plain(n_values)
          /\ control_type = "DOUBLE_Q_LEARNING" =>
                 /\ file'.from.qa_values = Plain(qa_values)
                 /\ file'.from.qb_values = Plain(qb_values)]_vars

LoadErrors == {"FileNotFoundError", "JSONDecodeError", "KeyError", "ValueError"}

\* C17 as stated: a load_q_value call that raises leaves every table as it
\* was before the call.
C17_LoadAllOrNothing ==
    [][((load_q_value \/ load_foreign) /\ raised' \in LoadErrors) =>
           UNCHANGED table_vars]_vars

====
